---- MODULE Spec2Model ----
(***************************************************************************)
(* European option calculator (src/main.c): the Black-Scholes pricing      *)
(* engine and the interactive main loop around it.                         *)
(*                                                                         *)
(* A C double is modelled as a record [k, v]: k = "fin" with v the value   *)
(* in units of 1/SCALE (fixed point, rounded to nearest), or one of the    *)
(* IEEE-754 specials k = "nan", "pinf", "ninf" (v = 0).  Zero is unsigned: *)
(* -0.0 compares equal to 0.0 and fabs, x*x and x >= 0.0 treat both alike; *)
(* the sign of a zero can only change the sign of an infinite d1 or d2,    *)
(* and every output of the engine is the same for d = +inf and d = -inf.   *)
(* The inputs are kept in a range where no fixed-point operation leaves    *)
(* the 32-bit integers (TLC stops with an error if one does).              *)
(***************************************************************************)
EXTENDS Integers, Sequences, FiniteSets, TLC

\* ------------------------------------------------------------------------
\* Fixed-point arithmetic on magnitudes (the finite part of a double)
\* ------------------------------------------------------------------------

\* One unit of the fixed-point representation is 1/SCALE.
SCALE == 10^6
\* SCALE = HALF * HALF: products are formed from half-words so that no
\* partial product overflows.
HALF == 10^3

\* Terms of the Taylor series of exp on [0,1).
ExpTerms == 12
\* Terms of the atanh series of log on [1,2).
LogTerms == 9
\* Newton steps of the square root.
SqrtIters == 40

Abs(a) == IF a < 0 THEN -a ELSE a
Sgn(a) == IF a < 0 THEN -1 ELSE IF a > 0 THEN 1 ELSE 0

\* round(a*b/SCALE) for a, b >= 0
MulMag(a, b) ==
  LET ah == a \div HALF
      al == a % HALF
      bh == b \div HALF
      bl == b % HALF
      t1 == ah * bl
      t2 == al * bh
      w  == (al * bl + (SCALE \div 2)) \div HALF
  IN  ah * bh + (t1 \div HALF) + (t2 \div HALF)
      + (((t1 % HALF) + (t2 % HALF) + w) \div HALF)

\* the decimal digits of r/b after the point (r < b) down to 1/SCALE, rounded
\* to nearest; u is the weight of the digit before the next one
RECURSIVE LongDiv(_, _, _)
LongDiv(r, b, u) ==
  IF u = 1 THEN (IF 2 * r >= b THEN 1 ELSE 0)
  ELSE ((r * 10) \div b) * (u \div 10) + LongDiv((r * 10) % b, b, u \div 10)

\* round(a*SCALE/b) for a >= 0, b > 0
DivMag(a, b) == (a \div b) * SCALE + LongDiv(a % b, b, SCALE)

\* sqrt by Newton's iteration y <- (y + x/y)/2 from above
RECURSIVE NewtonSqrt(_, _, _)
NewtonSqrt(x, y, n) ==
  LET y2 == (y + DivMag(x, y)) \div 2
  IN  IF n = 0 \/ y2 >= y THEN y ELSE NewtonSqrt(x, y2, n - 1)

SqrtMag(x) == IF x = 0 THEN 0
              ELSE NewtonSqrt(x, IF x > SCALE THEN x ELSE SCALE, SqrtIters)

RECURSIVE PowMag(_, _)
PowMag(b, n) == IF n = 0 THEN SCALE ELSE MulMag(b, PowMag(b, n - 1))

\* sum_{j=k}^{ExpTerms} f^j/j!, given term = f^k/k!
RECURSIVE ExpSeries(_, _, _)
ExpSeries(f, term, k) ==
  IF k > ExpTerms \/ term = 0 THEN 0
  ELSE term + ExpSeries(f, (MulMag(term, f) + ((k + 1) \div 2)) \div (k + 1), k + 1)

\* e and 1/e, in units of 1/SCALE
E_UNITS == ExpSeries(SCALE, SCALE, 0)
EINV_UNITS == DivMag(SCALE, E_UNITS)

\* exp(x) for a finite x of either sign
ExpFix(x) ==
  LET a == Abs(x)
      n == a \div SCALE
      s == ExpSeries(a % SCALE, SCALE, 0)
  IN  IF x >= 0 THEN MulMag(PowMag(E_UNITS, n), s)
      ELSE IF n > 14 THEN 0
      ELSE MulMag(PowMag(EINV_UNITS, n), DivMag(SCALE, s))

\* z + z^3/3 + z^5/5 + ..., given p = z^k (k odd) and z2 = z^2
RECURSIVE AtanhSeries(_, _, _)
AtanhSeries(p, z2, k) ==
  IF k > 2 * LogTerms \/ p = 0 THEN 0
  ELSE ((p + (k \div 2)) \div k) + AtanhSeries(MulMag(p, z2), z2, k + 2)

\* ln 2 = 2*atanh(1/3), in units of 1/SCALE
LN2_UNITS ==
  LET z == DivMag(SCALE, 3 * SCALE)
  IN  2 * AtanhSeries(z, MulMag(z, z), 1)

\* log(x) for x > 0: x = m * 2^e with m in [1,2), log x = e*ln2 + 2*atanh((m-1)/(m+1))
RECURSIVE LogFix(_)
LogFix(x) ==
  IF x >= 2 * SCALE THEN LN2_UNITS + LogFix(x \div 2)
  ELSE IF x < SCALE THEN LogFix(2 * x) - LN2_UNITS
  ELSE LET z == DivMag(x - SCALE, x + SCALE)
       IN  2 * AtanhSeries(z, MulMag(z, z), 1)

\* ------------------------------------------------------------------------
\* IEEE-754 doubles: finite values and the specials
\* ------------------------------------------------------------------------

Fin(v) == [k |-> "fin", v |-> v]
NaN    == [k |-> "nan", v |-> 0]
PInf   == [k |-> "pinf", v |-> 0]
NInf   == [k |-> "ninf", v |-> 0]

IsFin(a) == a.k = "fin"
IsNaN(a) == a.k = "nan"
IsInf(a) == a.k \in {"pinf", "ninf"}
\* -1, 0 or 1; of a NaN, 0
SignOf(a) == CASE a.k = "fin" -> Sgn(a.v)
               [] a.k = "pinf" -> 1
               [] a.k = "ninf" -> -1
               [] OTHER -> 0
InfOfSign(s) == IF s < 0 THEN NInf ELSE PInf

\* unary minus
FNeg(a) == CASE a.k = "fin" -> Fin(-a.v)
             [] a.k = "pinf" -> NInf
             [] a.k = "ninf" -> PInf
             [] OTHER -> NaN

\* a + b
FAdd(a, b) ==
  IF IsNaN(a) \/ IsNaN(b) THEN NaN
  ELSE IF IsInf(a) /\ IsInf(b) THEN (IF a.k = b.k THEN a ELSE NaN)
  ELSE IF IsInf(a) THEN a
  ELSE IF IsInf(b) THEN b
  ELSE Fin(a.v + b.v)

\* a - b
FSub(a, b) == FAdd(a, FNeg(b))

\* a * b
FMul(a, b) ==
  IF IsNaN(a) \/ IsNaN(b) THEN NaN
  ELSE IF IsInf(a) \/ IsInf(b)
       THEN (IF SignOf(a) * SignOf(b) = 0 THEN NaN
             ELSE InfOfSign(SignOf(a) * SignOf(b)))
  ELSE Fin(Sgn(a.v) * Sgn(b.v) * MulMag(Abs(a.v), Abs(b.v)))

\* a / b
FDiv(a, b) ==
  IF IsNaN(a) \/ IsNaN(b) THEN NaN
  ELSE IF IsInf(a) THEN (IF IsInf(b) THEN NaN
                         ELSE InfOfSign(SignOf(a) * (IF SignOf(b) < 0 THEN -1 ELSE 1)))
  ELSE IF IsInf(b) THEN Fin(0)
  ELSE IF b.v = 0 THEN (IF a.v = 0 THEN NaN ELSE InfOfSign(Sgn(a.v)))
  ELSE Fin(Sgn(a.v) * Sgn(b.v) * DivMag(Abs(a.v), Abs(b.v)))

\* fabs(a)
FAbs(a) == CASE a.k = "fin" -> Fin(Abs(a.v))
             [] a.k = "nan" -> NaN
             [] OTHER -> PInf

\* sqrt(a)
FSqrt(a) == CASE a.k = "nan" -> NaN
              [] a.k = "pinf" -> PInf
              [] a.k = "ninf" -> NaN
              [] OTHER -> IF a.v < 0 THEN NaN ELSE Fin(SqrtMag(a.v))

\* exp(a)
FExp(a) == CASE a.k = "nan" -> NaN
             [] a.k = "pinf" -> PInf
             [] a.k = "ninf" -> Fin(0)
             [] OTHER -> Fin(ExpFix(a.v))

\* log(a)
FLog(a) == CASE a.k = "nan" -> NaN
             [] a.k = "pinf" -> PInf
             [] a.k = "ninf" -> NaN
             [] OTHER -> IF a.v < 0 THEN NaN
                         ELSE IF a.v = 0 THEN NInf
                         ELSE Fin(LogFix(a.v))

\* a >= b (false when either is a NaN)
FGe(a, b) ==
  IF IsNaN(a) \/ IsNaN(b) THEN FALSE
  ELSE IF a.k = "pinf" \/ b.k = "ninf" THEN TRUE
  ELSE IF a.k = "ninf" \/ b.k = "pinf" THEN FALSE
  ELSE a.v >= b.v

\* a <= b (false when either is a NaN)
FLe(a, b) == FGe(b, a)

\* the literals of main.c, in units of 1/SCALE
CDF_P == 327591
CDF_A1 == 254830
CDF_A2 == 80789
CDF_A3 == 324
INV_SQRT_2PI == 398942
M_PI == 3141593

ZERO == Fin(0)
ONE  == Fin(SCALE)
HALF_ONE == Fin(SCALE \div 2)
TWO  == Fin(2 * SCALE)

\* ------------------------------------------------------------------------
\* The pricing engine
\* ------------------------------------------------------------------------

\* double cdf(double x)
cdf(x) ==
  LET t  == FDiv(ONE, FAdd(ONE, FMul(Fin(CDF_P), FAbs(x))))
      y0 == FAdd(FAdd(FMul(Fin(CDF_A1), t),
                      FMul(FMul(Fin(CDF_A2), t), t)),
                 FMul(FMul(FMul(Fin(CDF_A3), t), t), t))
      y  == FMul(FMul(Fin(INV_SQRT_2PI),
                      FExp(FMul(FMul(FNeg(HALF_ONE), x), x))), y0)
  IN  IF FGe(x, ZERO) THEN FAdd(HALF_ONE, y) ELSE FSub(HALF_ONE, y)

\* d1 with the logarithm taken of fabs(S / K)
calculate_standard_normal_variable_stock_abs(S, K, T, r, sigma) ==
  FDiv(FAdd(FLog(FAbs(FDiv(S, K))),
            FMul(FAdd(r, FMul(FMul(HALF_ONE, sigma), sigma)), T)),
       FMul(sigma, FSqrt(T)))

\* d1
calculate_standard_normal_variable_stock(S, K, T, r, sigma) ==
  FDiv(FAdd(FLog(FDiv(S, K)),
            FMul(FAdd(r, FMul(FMul(HALF_ONE, sigma), sigma)), T)),
       FMul(sigma, FSqrt(T)))

\* d2
calculate_standard_normal_variable_strike(d1, T, r, sigma) ==
  FSub(d1, FMul(sigma, FSqrt(T)))

\* int option_type = (type == 'c') ? 1 : -1, converted to double
OptionTypeSign(type) == IF type = "c" THEN ONE ELSE FNeg(ONE)

calculate_european_option(d1, d2, S, K, T, r, type) ==
  IF type = "c"
  THEN FSub(FMul(S, cdf(d1)),
            FMul(FMul(K, FExp(FMul(FNeg(r), T))), cdf(d2)))
  ELSE FSub(FMul(FMul(K, FExp(FMul(FNeg(r), T))), cdf(FNeg(d2))),
            FMul(S, cdf(FNeg(d1))))

\* delta without the outer factor option_type
calculate_delta_unsigned(d1, type) ==
  cdf(FMul(OptionTypeSign(type), d1))

calculate_delta(d1, type) ==
  FMul(OptionTypeSign(type), cdf(FMul(OptionTypeSign(type), d1)))

calculate_gamma(d1, S, T, sigma) ==
  FDiv(FExp(FMul(FMul(FNeg(HALF_ONE), d1), d1)),
       FMul(FMul(S, sigma), FSqrt(FMul(FMul(TWO, Fin(M_PI)), T))))

calculate_vega(d1, S, T) ==
  FDiv(FMul(FMul(S, FSqrt(T)), FExp(FMul(FMul(FNeg(HALF_ONE), d1), d1))),
       FSqrt(FMul(TWO, Fin(M_PI))))

calculate_theta(d1, d2, S, K, T, r, sigma, type) ==
  FSub(FDiv(FMul(FMul(FMul(FNeg(HALF_ONE), sigma), S),
                 FExp(FMul(FMul(FNeg(HALF_ONE), d1), d1))),
            FSqrt(FMul(FMul(TWO, Fin(M_PI)), T))),
       FMul(FMul(FMul(FMul(OptionTypeSign(type), r), K),
                 FExp(FMul(FNeg(r), T))),
            cdf(FMul(OptionTypeSign(type), d2))))

\* calculateOption with the values of theta and gamma stored in each other's
\* field
calculateOptionValue_swapped(request) ==
  LET d1 == calculate_standard_normal_variable_stock(
              request.S, request.K, request.T, request.r, request.sigma)
      d2 == calculate_standard_normal_variable_strike(
              d1, request.T, request.r, request.sigma)
  IN  [price |-> calculate_european_option(d1, d2, request.S, request.K,
                                           request.T, request.r, request.type),
       delta |-> calculate_delta(d1, request.type),
       gamma |-> calculate_theta(d1, d2, request.S, request.K, request.T,
                                 request.r, request.sigma, request.type),
       theta |-> calculate_gamma(d1, request.S, request.T, request.sigma),
       vega  |-> calculate_vega(d1, request.S, request.T)]

\* The record calculateOption fills in (the allocation is modelled by the
\* actions that call it).
calculateOptionValue(request) ==
  LET d1 == calculate_standard_normal_variable_stock(
              request.S, request.K, request.T, request.r, request.sigma)
      d2 == calculate_standard_normal_variable_strike(
              d1, request.T, request.r, request.sigma)
  IN  [price |-> calculate_european_option(d1, d2, request.S, request.K,
                                           request.T, request.r, request.type),
       delta |-> calculate_delta(d1, request.type),
       theta |-> calculate_theta(d1, d2, request.S, request.K, request.T,
                                 request.r, request.sigma, request.type),
       gamma |-> calculate_gamma(d1, request.S, request.T, request.sigma),
       vega  |-> calculate_vega(d1, request.S, request.T)]

\* ------------------------------------------------------------------------
\* Input validation
\* ------------------------------------------------------------------------

\* A token is a sequence of characters; strtod is modelled for decimal
\* numbers (sign, digits, point, digits) and for "nan" and "inf".  Tokens
\* hold no exponent and no hexadecimal prefix.
DigitChars == <<"0", "1", "2", "3", "4", "5", "6", "7", "8", "9">>
IsDigit(c) == \E i \in 1..Len(DigitChars) : DigitChars[i] = c
DigitVal(c) == (CHOOSE i \in 1..Len(DigitChars) : DigitChars[i] = c) - 1

\* the number of digits of input from position i on
RECURSIVE DigitRun(_, _)
DigitRun(input, i) ==
  IF i <= Len(input) /\ IsDigit(input[i]) THEN 1 + DigitRun(input, i + 1) ELSE 0

\* the value of the n digits input[i..i+n-1]
RECURSIVE IntDigits(_, _, _)
IntDigits(input, i, n) ==
  IF n = 0 THEN 0
  ELSE IntDigits(input, i, n - 1) * 10 + DigitVal(input[i + n - 1])

\* the value, in units of 1/SCALE, of the n digits after the point; u is the
\* weight of the digit before input[i]
RECURSIVE FracDigits(_, _, _, _)
FracDigits(input, i, n, u) ==
  IF n = 0 \/ u = 1 THEN 0
  ELSE DigitVal(input[i]) * (u \div 10) + FracDigits(input, i + 1, n - 1, u \div 10)

\* strtod(input, &endptr): the value and endptr - input
strtod(input) ==
  LET s    == IF Len(input) >= 1 /\ input[1] \in {"-", "+"} THEN 1 ELSE 0
      neg  == s = 1 /\ input[1] = "-"
      ni   == DigitRun(input, s + 1)
      dot  == s + ni + 1 <= Len(input) /\ input[s + ni + 1] = "."
      nf   == IF dot THEN DigitRun(input, s + ni + 2) ELSE 0
      mag  == IntDigits(input, s + 1, ni) * SCALE
              + FracDigits(input, s + ni + 2, nf, SCALE)
      word == IF Len(input) >= s + 3 THEN SubSeq(input, s + 1, s + 3) ELSE <<>>
  IN  IF ni + nf > 0
      THEN [value |-> Fin(IF neg THEN -mag ELSE mag),
            end   |-> s + ni + (IF dot THEN 1 + nf ELSE 0)]
      ELSE IF word = <<"n", "a", "n">> THEN [value |-> NaN, end |-> s + 3]
      ELSE IF word = <<"i", "n", "f">>
           THEN [value |-> IF neg THEN NInf ELSE PInf, end |-> s + 3]
      ELSE [value |-> ZERO, end |-> 0]

\* validate_input without the test *endptr == '\0'
validate_input_prefix(input) ==
  [value |-> strtod(input).value,
   ok    |-> strtod(input).end # 0]

\* int validate_input(const char *input, double *value): the value stored
\* through the pointer and the result
validate_input(input) ==
  [value |-> strtod(input).value,
   ok    |-> strtod(input).end # 0 /\ strtod(input).end = Len(input)]

\* the tokens scanf("%s") may deliver, and the characters scanf(" %c") may
\* deliver (after a failed scanf the buffer is indeterminate: any of these)
Tokens == { <<"1">>, <<"0">>, <<"-", "2">>, <<".", "5">>,
            <<"1", "a">>, <<"a">>, <<"-">>, <<"n", "a", "n">> }
TypeChars == {"c", "p", "x", "C"}

\* ------------------------------------------------------------------------
\* State
\* ------------------------------------------------------------------------

VARIABLES
  pc,          \* where main is (a prompt, a call of main's loop body, "exit")
  locals,      \* main's S, K, T, r, sigma, type
  input,       \* get_double_input's buffer: the token last read
  rejected,    \* the last read printed "Invalid input..."
  accepted,    \* the fields read and validated in this iteration
  request,     \* the RequestOptionParameters record
  response,    \* the ResponseOptionParameters record
  work,        \* calculateOption's d1, d2 and the cdf values of delta and theta
  heap,        \* the state of the two heap records: "none", "live", "freed"
  live,        \* the number of live heap records
  lastMalloc,  \* the outcome of the last malloc: "none", "ok", "null"
  fault,       \* a record was read or freed while not live
  stdout,      \* the five numbers displayOption printed last
  iters,       \* the number of completed iterations of main's loop
  prev         \* the quote priced before a change of kind (engine specification)

vars == <<pc, locals, input, rejected, accepted, request, response, work,
          heap, live, lastMalloc, fault, stdout, iters, prev>>

\* The model follows main's loop for MaxIter iterations.
MaxIter == 2

\* an indeterminate double (declared, never written)
Undef == [k |-> "undef", v |-> 0]

NumFields == <<"S", "K", "T", "r", "sigma">>
NumFieldSet == {NumFields[i] : i \in 1..Len(NumFields)}

UndefLocals == [S |-> Undef, K |-> Undef, T |-> Undef, r |-> Undef,
                sigma |-> Undef, type |-> "undef"]
NoRequest == UndefLocals
NoResponse == [price |-> Undef, delta |-> Undef, gamma |-> Undef,
               vega |-> Undef, theta |-> Undef]
NoWork == [d1 |-> Undef, d2 |-> Undef, Nd1 |-> Undef, Nd2 |-> Undef]
NoQuote == [valid |-> FALSE, request |-> NoRequest, response |-> NoResponse,
            work |-> NoWork]

\* the statement after the prompt of a field, in get_user_input and main
NextPc(p) == CASE p = "S" -> "K"
               [] p = "K" -> "T"
               [] p = "T" -> "r"
               [] p = "r" -> "sigma"
               [] p = "sigma" -> "type"
               [] p = "type" -> "init"
               [] p = "init" -> "calc"
               [] p = "calc" -> "display"
               [] p = "display" -> "free_request"
               [] p = "free_request" -> "free_response"
               [] p = "free_response" -> "S"
               [] OTHER -> "exit"

\* calculateOption's locals and the values of cdf it computes for delta and
\* theta
calculateOptionWork(req) ==
  LET d1 == calculate_standard_normal_variable_stock(
              req.S, req.K, req.T, req.r, req.sigma)
      d2 == calculate_standard_normal_variable_strike(d1, req.T, req.r, req.sigma)
  IN  [d1 |-> d1, d2 |-> d2,
       Nd1 |-> cdf(FMul(OptionTypeSign(req.type), d1)),
       Nd2 |-> cdf(FMul(OptionTypeSign(req.type), d2))]

\* printf("%.2f"): a finite value in units of 1/100, rounded to nearest
Format2(a) ==
  IF IsFin(a)
  THEN Fin(Sgn(a.v) * ((Abs(a.v) + (SCALE \div 200)) \div (SCALE \div 100)))
  ELSE a

\* ------------------------------------------------------------------------
\* The main loop
\* ------------------------------------------------------------------------

Init ==
  /\ pc = "S"
  /\ locals = UndefLocals
  /\ input = <<>>
  /\ rejected = FALSE
  /\ accepted = {}
  /\ request = NoRequest
  /\ response = NoResponse
  /\ work = NoWork
  /\ heap = [request |-> "none", response |-> "none"]
  /\ live = 0
  /\ lastMalloc = "none"
  /\ fault = FALSE
  /\ stdout = NoResponse
  /\ iters = 0
  /\ prev = NoQuote

\* One pass of get_double_input's loop at the prompt of field pc: read a
\* token, store strtod's value through the pointer, leave the loop when
\* validate_input accepts the token and print "Invalid input" otherwise.
get_double_input ==
  /\ pc \in NumFieldSet
  /\ pc = "S" => iters < MaxIter
  /\ \E tok \in Tokens :
       /\ input' = tok
       /\ locals' = [locals EXCEPT ![pc] = validate_input(tok).value]
       /\ IF validate_input(tok).ok
          THEN /\ pc' = NextPc(pc)
               /\ rejected' = FALSE
               /\ accepted' = accepted \cup {pc}
          ELSE /\ pc' = pc
               /\ rejected' = TRUE
               /\ accepted' = accepted
  /\ UNCHANGED <<request, response, work, heap, live, lastMalloc, fault,
                 stdout, iters, prev>>

\* One pass of get_char_input's loop.
get_char_input ==
  /\ pc = "type"
  /\ \E ch \in TypeChars :
       /\ locals' = [locals EXCEPT !.type = ch]
       /\ IF ch = "c" \/ ch = "p"
          THEN /\ pc' = NextPc(pc)
               /\ rejected' = FALSE
               /\ accepted' = accepted \cup {"type"}
          ELSE /\ pc' = pc
               /\ rejected' = TRUE
               /\ accepted' = accepted
  /\ UNCHANGED <<input, request, response, work, heap, live, lastMalloc,
                 fault, stdout, iters, prev>>

\* init_option_parameters(S, K, T, r, sigma, type): malloc returns a record
\* or NULL; on NULL the program exits with EXIT_FAILURE.
init_option_parameters ==
  /\ pc = "init"
  /\ \E ok \in BOOLEAN :
       IF ok
       THEN /\ request' = [S |-> locals.S, K |-> locals.K, T |-> locals.T,
                           r |-> locals.r, sigma |-> locals.sigma,
                           type |-> locals.type]
            /\ heap' = [heap EXCEPT !.request = "live"]
            /\ live' = live + 1
            /\ lastMalloc' = "ok"
            /\ pc' = NextPc(pc)
       ELSE /\ lastMalloc' = "null"
            /\ pc' = "exit"
            /\ UNCHANGED <<request, heap, live>>
  /\ UNCHANGED <<locals, input, rejected, accepted, response, work, fault,
                 stdout, iters, prev>>

\* calculateOption terminating the program when a field is not finite
calculateOption_raising ==
  /\ pc = "calc"
  /\ \E ok \in BOOLEAN :
       IF ok /\ \A f \in {"price", "delta", "gamma", "vega", "theta"} :
                  IsFin(calculateOptionValue(request)[f])
       THEN /\ response' = calculateOptionValue(request)
            /\ work' = calculateOptionWork(request)
            /\ heap' = [heap EXCEPT !.response = "live"]
            /\ live' = live + 1
            /\ lastMalloc' = "ok"
            /\ fault' = (fault \/ heap.request # "live")
            /\ pc' = NextPc(pc)
       ELSE /\ lastMalloc' = (IF ok THEN "ok" ELSE "null")
            /\ pc' = "exit"
            /\ UNCHANGED <<response, work, heap, live, fault>>
  /\ UNCHANGED <<locals, input, rejected, accepted, request, stdout, iters,
                 prev>>

\* calculateOption(request): malloc, then the five fields from one d1, d2.
calculateOption ==
  /\ pc = "calc"
  /\ \E ok \in BOOLEAN :
       IF ok
       THEN /\ response' = calculateOptionValue(request)
            /\ work' = calculateOptionWork(request)
            /\ heap' = [heap EXCEPT !.response = "live"]
            /\ live' = live + 1
            /\ lastMalloc' = "ok"
            /\ fault' = (fault \/ heap.request # "live")
            /\ pc' = NextPc(pc)
       ELSE /\ lastMalloc' = "null"
            /\ pc' = "exit"
            /\ UNCHANGED <<response, work, heap, live, fault>>
  /\ UNCHANGED <<locals, input, rejected, accepted, request, stdout, iters,
                 prev>>

\* displayOption(response)
displayOption ==
  /\ pc = "display"
  /\ stdout' = [price |-> Format2(response.price),
                delta |-> Format2(response.delta),
                gamma |-> Format2(response.gamma),
                vega  |-> Format2(response.vega),
                theta |-> Format2(response.theta)]
  /\ fault' = (fault \/ heap.response # "live")
  /\ pc' = NextPc(pc)
  /\ UNCHANGED <<locals, input, rejected, accepted, request, response, work,
                 heap, live, lastMalloc, iters, prev>>

\* main without its free(request)
free_request_skipped ==
  /\ pc = "free_request"
  /\ pc' = NextPc(pc)
  /\ UNCHANGED <<locals, input, rejected, accepted, request, response, work,
                 heap, live, lastMalloc, fault, stdout, iters, prev>>

\* free(request); the record's contents are gone
free_request ==
  /\ pc = "free_request"
  /\ fault' = (fault \/ heap.request # "live")
  /\ heap' = [heap EXCEPT !.request = "freed"]
  /\ live' = live - 1
  /\ request' = NoRequest
  /\ pc' = NextPc(pc)
  /\ UNCHANGED <<locals, input, rejected, accepted, response, work,
                 lastMalloc, stdout, iters, prev>>

\* free(response), and the loop starts over: the block's variables are
\* declared anew (the model keeps the output of the current iteration only).
free_response ==
  /\ pc = "free_response"
  /\ fault' = (fault \/ heap.response # "live")
  /\ live' = live - 1
  /\ heap' = [request |-> "none", response |-> "none"]
  /\ response' = NoResponse
  /\ work' = NoWork
  /\ locals' = UndefLocals
  /\ input' = <<>>
  /\ rejected' = FALSE
  /\ accepted' = {}
  /\ lastMalloc' = "none"
  /\ stdout' = NoResponse
  /\ iters' = iters + 1
  /\ pc' = NextPc(pc)
  /\ UNCHANGED <<request, prev>>

Next ==
  \/ get_double_input
  \/ get_char_input
  \/ init_option_parameters
  \/ calculateOption
  \/ displayOption
  \/ free_request
  \/ free_response

Spec == Init /\ [][Next]_vars

\* ------------------------------------------------------------------------
\* The engine as a function of its request
\* ------------------------------------------------------------------------

\* the requests the engine is applied to, in units of 1/SCALE
EngineS == {-100 * SCALE, 0, 100 * SCALE}
EngineK == {-100 * SCALE, 0, 50 * SCALE, 90 * SCALE, 100 * SCALE}
EngineT == {-SCALE, 0, SCALE \div 4, SCALE}
EngineR == {-(SCALE \div 8), 0, SCALE \div 20, SCALE \div 8}
EngineSigma == {-(SCALE \div 5), 0, SCALE \div 5, SCALE \div 2}

EngineRequests ==
  { [S |-> Fin(s), K |-> Fin(k), T |-> Fin(t), r |-> Fin(rr),
     sigma |-> Fin(sg), type |-> ty] :
      s \in EngineS, k \in EngineK, t \in EngineT, rr \in EngineR,
      sg \in EngineSigma, ty \in {"c", "p"} }

EngineInit ==
  /\ pc = "request"
  /\ request \in EngineRequests
  /\ locals = UndefLocals
  /\ input = <<>>
  /\ rejected = FALSE
  /\ accepted = {}
  /\ response = NoResponse
  /\ work = NoWork
  /\ heap = [request |-> "live", response |-> "none"]
  /\ live = 1
  /\ lastMalloc = "ok"
  /\ fault = FALSE
  /\ stdout = NoResponse
  /\ iters = 0
  /\ prev = NoQuote

\* calculateOption on the request, its allocation succeeding
EnginePrice ==
  /\ pc = "request"
  /\ response' = calculateOptionValue(request)
  /\ work' = calculateOptionWork(request)
  /\ pc' = "priced"
  /\ UNCHANGED <<locals, input, rejected, accepted, request, heap, live,
                 lastMalloc, fault, stdout, iters, prev>>

\* the request that differs from the one just priced only in type
EngineOtherKind ==
  /\ pc = "priced"
  /\ prev' = [valid |-> TRUE, request |-> request, response |-> response,
              work |-> work]
  /\ request' = [request EXCEPT !.type = IF request.type = "c" THEN "p" ELSE "c"]
  /\ response' = NoResponse
  /\ work' = NoWork
  /\ pc' = "request"
  /\ UNCHANGED <<locals, input, rejected, accepted, heap, live, lastMalloc,
                 fault, stdout, iters>>

EngineNext == EnginePrice \/ EngineOtherKind

EngineSpec == EngineInit /\ [][EngineNext]_vars

\* ------------------------------------------------------------------------
\* Properties
\* ------------------------------------------------------------------------

ResponseFields == {"price", "delta", "gamma", "vega", "theta"}

NonFinite(a) == a.k \in {"nan", "pinf", "ninf"}
HasNonFinite(resp) == \E f \in ResponseFields : NonFinite(resp[f])
AllFinite(resp) == \A f \in ResponseFields : IsFin(resp[f])

\* a and b are finite and differ by at most tol units
Within(a, b, tol) == IsFin(a) /\ IsFin(b) /\ Abs(a.v - b.v) <= tol

\* S > 0, K > 0, T > 0, sigma > 0
ValidRequest(req) ==
  /\ IsFin(req.S) /\ req.S.v > 0
  /\ IsFin(req.K) /\ req.K.v > 0
  /\ IsFin(req.T) /\ req.T.v > 0
  /\ IsFin(req.sigma) /\ req.sigma.v > 0
  /\ IsFin(req.r)

\* Under EngineSpec: the request was priced as a call and as a put.
BothPriced == pc = "priced" /\ prev.valid
CallQuote == IF request.type = "c"
             THEN [response |-> response, work |-> work]
             ELSE [response |-> prev.response, work |-> prev.work]
PutQuote  == IF request.type = "p"
             THEN [response |-> response, work |-> work]
             ELSE [response |-> prev.response, work |-> prev.work]

\* 1e-6, widened by the rounding of the four fixed-point products of the two
\* prices (one unit each): a violation of this bound violates the 1e-6 bound.
ParityTol == (SCALE \div 10^6) + 4

\* S - K*exp(-r*T)
ParityRhs(req) == FSub(req.S, FMul(req.K, FExp(FMul(FNeg(req.r), req.T))))

\* C1: put-call parity.  For every valid request, the call price minus the
\* put price of the same S, K, T, r, sigma equals S - K*exp(-r*T) within the
\* tolerance.
PutCallParity ==
  (BothPriced /\ ValidRequest(request)) =>
    Within(FSub(CallQuote.response.price, PutQuote.response.price),
           ParityRhs(request), ParityTol)

\* Parity does hold, in the model, wherever neither d1 nor d2 is zero.
PutCallParityAwayFromZero ==
  (BothPriced /\ ValidRequest(request) /\ IsFin(work.d1) /\ IsFin(work.d2)
     /\ work.d1.v # 0 /\ work.d2.v # 0) =>
    Within(FSub(CallQuote.response.price, PutQuote.response.price),
           ParityRhs(request), ParityTol)

\* 1e-7, in units of 1/SCALE (below the resolution: the two values must add
\* up to exactly one, as 0.5 + y and 0.5 - y do).
CdfTol == SCALE \div 10^7

\* C2: symmetry of cdf.  For every finite x the engine evaluates cdf at (d1
\* and d2 of a request, at x for the call and at -x for the put),
\* cdf(x) + cdf(-x) is 1 within the tolerance.
CdfSymmetry ==
  BothPriced =>
    /\ IsFin(work.d1) => Within(FAdd(CallQuote.work.Nd1, PutQuote.work.Nd1),
                                ONE, CdfTol)
    /\ IsFin(work.d2) => Within(FAdd(CallQuote.work.Nd2, PutQuote.work.Nd2),
                                ONE, CdfTol)

\* The symmetry does hold wherever x is not zero.
CdfSymmetryAwayFromZero ==
  BothPriced =>
    /\ (IsFin(work.d1) /\ work.d1.v # 0) =>
         Within(FAdd(CallQuote.work.Nd1, PutQuote.work.Nd1), ONE, CdfTol)
    /\ (IsFin(work.d2) /\ work.d2.v # 0) =>
         Within(FAdd(CallQuote.work.Nd2, PutQuote.work.Nd2), ONE, CdfTol)

\* S=100, K=100, T=1, r=0.05, sigma=0.2, call
RefRequest == [S |-> Fin(100 * SCALE), K |-> Fin(100 * SCALE), T |-> Fin(SCALE),
               r |-> Fin(SCALE \div 20), sigma |-> Fin(SCALE \div 5),
               type |-> "c"]
\* 0.05
RefTol == SCALE \div 20

\* C3: the reference scenario.  The record of RefRequest has price 10.45,
\* delta 0.64, gamma 0.0188, vega 37.52 and theta -6.41, each within 0.05.
ReferenceScenario ==
  (pc = "priced" /\ request = RefRequest) =>
    /\ Within(response.price, Fin((1045 * SCALE) \div 100), RefTol)
    /\ Within(response.delta, Fin((64 * SCALE) \div 100), RefTol)
    /\ Within(response.gamma, Fin((188 * SCALE) \div 10000), RefTol)
    /\ Within(response.vega, Fin((3752 * SCALE) \div 100), RefTol)
    /\ Within(response.theta, Fin(-((641 * SCALE) \div 100)), RefTol)

\* C4: delta bounds.  For every valid request the delta of a call is in
\* [0, 1] and the delta of a put is in [-1, 0].
DeltaBounds ==
  (pc = "priced" /\ ValidRequest(request)) =>
    IF request.type = "c"
    THEN FGe(response.delta, ZERO) /\ FLe(response.delta, ONE)
    ELSE FGe(response.delta, FNeg(ONE)) /\ FLe(response.delta, ZERO)

\* a valid put was priced and its delta is negative
DeltaBoundsWitness ==
  /\ pc = "priced" /\ ValidRequest(request)
  /\ request.type = "p"
  /\ IsFin(response.delta) /\ response.delta.v < 0

\* C5: gamma and vega are not negative for a valid request, and the call and
\* the put of the same S, K, T, r, sigma have the same gamma and the same vega.
GammaVegaPositive ==
  (pc = "priced" /\ ValidRequest(request)) =>
    /\ FGe(response.gamma, ZERO)
    /\ FGe(response.vega, ZERO)
    /\ prev.valid => /\ prev.response.gamma = response.gamma
                     /\ prev.response.vega = response.vega

\* a valid request was priced as a call and as a put, gamma and vega positive
GammaVegaWitness ==
  /\ BothPriced /\ ValidRequest(request)
  /\ IsFin(response.gamma) /\ response.gamma.v > 0
  /\ IsFin(response.vega) /\ response.vega.v > 0

\* T <= 0, or sigma <= 0, or S <= 0, or K <= 0
DomainViolation(req) ==
  req.T.v <= 0 \/ req.sigma.v <= 0 \/ req.S.v <= 0 \/ req.K.v <= 0

\* the violations that do reach the record: T <= 0, sigma = 0, S = 0, S and K
\* of opposite sign, S < 0 with K = 0
NonFiniteDomain(req) ==
  \/ req.T.v <= 0
  \/ req.sigma.v = 0
  \/ req.S.v = 0
  \/ req.S.v < 0 /\ req.K.v >= 0
  \/ req.S.v > 0 /\ req.K.v < 0

NeverTerminates == pc # "exit"

\* a record whose five fields were all written
Returned(resp) == \A f \in ResponseFields : resp[f].k # "undef"

\* C7 as amended: a call of init_option_parameters or calculateOption returns
\* a record to main whatever the numbers are, unless its allocation fails;
\* then, and only then, the program is terminated.
AllocationOnlyFailure ==
  [][ /\ pc = "init" =>
           \/ lastMalloc' = "ok" /\ pc' = "calc" /\ heap'.request = "live"
           \/ lastMalloc' = "null" /\ pc' = "exit"
      /\ pc = "calc" =>
           \/ /\ lastMalloc' = "ok" /\ pc' = "display"
              /\ heap'.response = "live" /\ Returned(response')
           \/ lastMalloc' = "null" /\ pc' = "exit"
      /\ pc' = "exit" => pc \in {"init", "calc"} /\ lastMalloc' = "null"
    ]_vars

\* calculateOption's allocation failed and the program was terminated
AllocationFailureWitness ==
  pc = "exit" /\ heap.request = "live" /\ lastMalloc = "null"

\* the token is entirely a number
IsNumberToken(tok) == Len(tok) > 0 /\ strtod(tok).end = Len(tok)

PromptOrder == <<"S", "K", "T", "r", "sigma", "type", "init">>

\* C8: the input retry loop.  The prompts come in the order S, K, T, r, sigma,
\* type; a token that is not entirely a number, or a character other than c
\* and p, leaves the prompt where it is; calculateOption is called only when
\* all five numbers were accepted and the type is c or p.
InputRetryLoop ==
  /\ pc = "S"
  /\ [][ /\ \A i \in 1..6 :
              (pc = PromptOrder[i] /\ pc' # pc) => pc' = PromptOrder[i + 1]
         /\ (pc \in NumFieldSet /\ ~IsNumberToken(input')) =>
              /\ pc' = pc /\ accepted' = accepted
         /\ (pc = "type" /\ locals'.type \notin {"c", "p"}) =>
              /\ pc' = pc /\ accepted' = accepted
         /\ (pc = "calc" /\ pc' = "display") =>
              /\ accepted = NumFieldSet \cup {"type"}
              /\ request.type \in {"c", "p"}
              /\ \A f \in NumFieldSet :
                   \E tok \in Tokens :
                     IsNumberToken(tok) /\ strtod(tok).value = request[f]
       ]_vars

\* at the fifth prompt, after four accepted numbers, a token was rejected
InputRetryWitness ==
  /\ pc = "sigma" /\ rejected
  /\ accepted = {"S", "K", "T", "r"}
  /\ ~IsNumberToken(input)

\* C9: the request given to calculateOption has S > 0, K > 0, T > 0 and
\* sigma > 0.
BoundaryPositivity == pc = "calc" => ValidRequest(request)

====
